---- MODULE Spec2Model ----
(***************************************************************************)
(* Verification model of virtual-swiper:                                   *)
(*   - the circular sliding window   (src/src/utils/sliding-window.ts)     *)
(*   - the bullet pagination         (src/unnamed/part_000, pagination.ts) *)
(*                                                                         *)
(* JavaScript arrays are 0-indexed; TLA+ sequences are 1-indexed.  Every   *)
(* index below is the JavaScript index; element i of an array a is         *)
(* a[i + 1].                                                               *)
(***************************************************************************)
EXTENDS Integers, Sequences, FiniteSets, TLC

VARIABLES
    call,        \* the pure function being applied and its arguments
    ret,         \* [done |-> FALSE] or [done |-> TRUE, value |-> result]
    pagination,  \* the fields of the Pagination object
    pc,          \* lifecycle of the Pagination: "constructed" or "rendered"
    last,        \* what the most recent method call did
    virchual,    \* the fields of the Virchual widget
    wpc,         \* lifecycle of the widget: "constructed" or "mounted"
    pending,     \* completion callbacks given to Slide.translate, not yet called
    dragging     \* a drag gesture is in progress (drag seen, dragend not yet)

vars == <<call, ret, pagination, pc, last, virchual, wpc, pending, dragging>>

widgetVars == <<virchual, wpc, pending, dragging>>

(***************************************************************************)
(* Bounds of the explored inputs.                                          *)
(***************************************************************************)
MaxLen == 5        \* longest source array given to slidingWindow
MaxRadius == 7     \* largest window radius given to slidingWindow
MaxTotal == 7      \* largest total given to mapActiveIndex / isEdgeBullet
MaxBullets == 6    \* largest bullet count (function arguments and option)
MaxSlides == 8     \* largest _totalSlides of a Pagination
MaxWidgetSlides == 5   \* largest number of slides of a widget
MaxWindow == 3     \* largest window option of a widget
MaxPending == 2    \* most completion callbacks outstanding at once
MaxHydrated == 3   \* most slides found in the frame at construction

(***************************************************************************)
(* JavaScript helpers.                                                     *)
(***************************************************************************)
\* The value of an array read outside 0..length-1, and of a bare `return;`.
\* Array elements are natural numbers, so -1 is never an element.
undefined == -1

Min(a, b) == IF a < b THEN a ELSE b

Max(a, b) == IF a > b THEN a ELSE b

Abs(a) == IF a < 0 THEN -a ELSE a

\* source[index] of JavaScript: undefined outside the array.
At(source, index) ==
    IF index >= 0 /\ index < Len(source) THEN source[index + 1] ELSE undefined

\* utils/utils.ts range(start, end): the integers start..end, both included;
\* empty when end < start.
range(start, end) ==
    [i \in 1..(end - start + 1) |-> start + i - 1]

\* utils/utils.ts rewind(index, edge): wraps edge+1 to 0 and -1 to edge.
rewind(index, edge) ==
    IF index > edge THEN 0
    ELSE IF index < 0 THEN edge
    ELSE index

(***************************************************************************)
(* sliding-window.ts                                                       *)
(***************************************************************************)
\* get with the direction of the shift the same for both out-of-range sides.
get_sameSign(source, index) ==
    IF Len(source) = 0 THEN undefined
    ELSE
        LET isOutOfBounds == index < 0 \/ index > Len(source) - 1
            multiple == Max(Abs(index) \div Len(source), 1)
            wrapped == IF isOutOfBounds
                       THEN index + multiple * Len(source)
                       ELSE index
        IN  At(source, wrapped)

get(source, index) ==
    IF Len(source) = 0 THEN undefined
    ELSE
        LET isOutOfLowerBounds == index < 0
            isOutOfUpperBounds == index > Len(source) - 1
            isOutOfBounds == isOutOfLowerBounds \/ isOutOfUpperBounds
            sign == IF isOutOfUpperBounds THEN -1 ELSE 1
            multiple == Max(Abs(index) \div Len(source), 1)
            wrapped == IF isOutOfBounds
                       THEN index + sign * multiple * Len(source)
                       ELSE index
        IN  At(source, wrapped)

\* slidingWindow whose right half starts at the center instead of after it.
slidingWindow_rightFromCenter(source, start, size) ==
    LET leftIdx == range(start - size, start - 1)
        left == [i \in 1..Len(leftIdx) |-> get(source, leftIdx[i])]
        center == <<At(source, start)>>
        rightIdx == range(start, start + size)
        right == [i \in 1..Len(rightIdx) |-> get(source, rightIdx[i])]
    IN  left \o center \o right

slidingWindow(source, start, size) ==
    LET leftIdx == range(start - size, start - 1)
        left == [i \in 1..Len(leftIdx) |-> get(source, leftIdx[i])]
        center == <<At(source, start)>>
        rightIdx == range(start + 1, start + size)
        right == [i \in 1..Len(rightIdx) |-> get(source, rightIdx[i])]
    IN  left \o center \o right

(***************************************************************************)
(* pagination.ts: the pure functions                                       *)
(***************************************************************************)
mapActiveIndex(index, center, bullets, total) ==
    IF bullets >= total THEN index
    ELSE index - Max(index - center, 0) + Max(index - (-1 + total - center), 0)

\* isEdgeBullet with an off-by-one in the right edge test.
isEdgeBullet_rightOffByOne(index, realIndex, bullets, total) ==
    LET isRightEdge == index = bullets - 1
    IN  IF index = 0 THEN index # realIndex
        ELSE IF isRightEdge THEN realIndex < total
        ELSE FALSE

isEdgeBullet(index, realIndex, bullets, total) ==
    LET isRightEdge == index = bullets - 1
    IN  IF index = 0 THEN index # realIndex
        ELSE IF isRightEdge THEN realIndex + 1 < total
        ELSE FALSE

getRealIndex(index, currentIndex, activeBulletIndex) ==
    currentIndex - activeBulletIndex + index

(***************************************************************************)
(* SpecFn: the pure functions applied to every input within the bounds.    *)
(***************************************************************************)
\* Source arrays: base, base+1, ..., base+n-1.  base 1 gives the arrays of
\* the tests ([1,2,3,4,5]); base 0 gives the widget's range(0, n-1).
\* The elements of one array are pairwise distinct, so an element of the
\* window identifies the index that was read.
Sources == { [i \in 1..n |-> base + i - 1] : n \in 0..MaxLen, base \in 0..1 }

SlidingWindowCalls ==
    { [fn |-> "slidingWindow", source |-> s, start |-> st, size |-> r] :
        s \in Sources, st \in 0..(MaxLen - 1), r \in 0..MaxRadius }

MapActiveIndexCalls ==
    { [fn |-> "mapActiveIndex", index |-> i, center |-> c, bullets |-> b, total |-> t] :
        i \in 0..(MaxTotal - 1), c \in 0..(MaxBullets \div 2),
        b \in 1..MaxBullets, t \in 1..MaxTotal }

IsEdgeBulletCalls ==
    { [fn |-> "isEdgeBullet", index |-> i, realIndex |-> ri, bullets |-> b, total |-> t] :
        i \in 0..MaxBullets, ri \in -1..MaxTotal,
        b \in 1..MaxBullets, t \in 0..MaxTotal }

NoCall == [fn |-> "none"]

NotReturned == [done |-> FALSE]

NoPagination == [constructed |-> FALSE]

NoLast == [op |-> "none"]

NoVirchual == [constructed |-> FALSE]

\* No widget exists: the widget variables of the other specifications.
NoWidget ==
    /\ virchual = NoVirchual
    /\ wpc = "none"
    /\ pending = 0
    /\ dragging = FALSE

InitFn ==
    /\ call \in SlidingWindowCalls \cup MapActiveIndexCalls \cup IsEdgeBulletCalls
    /\ (call.fn = "slidingWindow" => (call.start < Len(call.source) \/ call.start = 0))
    /\ (call.fn = "mapActiveIndex" => call.index < call.total)
    /\ ret = NotReturned
    /\ pagination = NoPagination
    /\ pc = "none"
    /\ last = NoLast
    /\ NoWidget

CallSlidingWindow ==
    /\ call.fn = "slidingWindow"
    /\ ~ret.done
    /\ ret' = [done |-> TRUE,
               value |-> slidingWindow(call.source, call.start, call.size)]
    /\ UNCHANGED <<call, pagination, pc, last, widgetVars>>

CallMapActiveIndex ==
    /\ call.fn = "mapActiveIndex"
    /\ ~ret.done
    /\ ret' = [done |-> TRUE,
               value |-> mapActiveIndex(call.index, call.center, call.bullets, call.total)]
    /\ UNCHANGED <<call, pagination, pc, last, widgetVars>>

CallIsEdgeBullet ==
    /\ call.fn = "isEdgeBullet"
    /\ ~ret.done
    /\ ret' = [done |-> TRUE,
               value |-> isEdgeBullet(call.index, call.realIndex, call.bullets, call.total)]
    /\ UNCHANGED <<call, pagination, pc, last, widgetVars>>

NextFn ==
    \/ CallSlidingWindow
    \/ CallMapActiveIndex
    \/ CallIsEdgeBullet

SpecFn == InitFn /\ [][NextFn]_vars

(***************************************************************************)
(* pagination.ts: the Pagination class.                                    *)
(*                                                                         *)
(* An optional value (an option that may be left out, a reference that may *)
(* be null) is a sequence of length 0 or 1.  The pagination element _ref   *)
(* is null (<<>>) or holds the sequence of its bullet <span>s, in document *)
(* order.  A bullet is [isActive, isEdge, position]: the two classes and   *)
(* the translateX of its transform.                                        *)
(***************************************************************************)
DefaultBullets == 5

DefaultDiameter == 16

\* x ?? fallback
Coalesce(x, fallback) == IF Len(x) = 0 THEN fallback ELSE x[1]

\* utils/dom.ts addOrRemoveClass(elm, class, remove): whether elm carries
\* the class afterwards.
addOrRemoveClass(remove) == ~remove

\* utils/dom.ts createElement('span', ...): no state class, no transform.
createElement == [isActive |-> FALSE, isEdge |-> FALSE, position |-> 0]

\* utils/dom.ts append / prepend / remove on the children of an element.
append(children, child) == Append(children, child)

prepend(children, child) == <<child>> \o children

\* A flag of an options object: a missing field is undefined, hence falsy.
Truthy(opts, field) == field \in DOMAIN opts /\ opts[field]

\* _setAttributes that adds the state classes and never takes them away.
_setAttributes_neverRemoves(bullet, opts) ==
    [isActive |-> bullet.isActive \/ Truthy(opts, "_isActive"),
     isEdge |-> bullet.isEdge \/ Truthy(opts, "_isEdge"),
     position |-> IF "_position" \in DOMAIN opts
                  THEN opts._position
                  ELSE bullet.position]

_setAttributes(bullet, opts) ==
    [isActive |-> addOrRemoveClass(~Truthy(opts, "_isActive")),
     isEdge |-> addOrRemoveClass(~Truthy(opts, "_isEdge")),
     position |-> IF "_position" \in DOMAIN opts
                  THEN opts._position
                  ELSE bullet.position]

_renderBullet(p, index, opts) ==
    _setAttributes(createElement,
                   opts @@ [f \in {"_position"} |-> index * p.diameter])

\* _handleBulletMovement that positions a kept bullet by its old index.
_handleBulletMovement_unshiftedPosition(p, bullet, index, activeIndex, sign, removeBulletIndex) ==
    IF removeBulletIndex = index
    THEN [removed |-> TRUE, wrote |-> FALSE, bullet |-> bullet]
    ELSE
        LET shifted == index - (IF removeBulletIndex > -1 THEN sign ELSE 0)
            realIndex == getRealIndex(shifted, p.currentIndex, activeIndex)
            isEdge == isEdgeBullet(shifted, realIndex, p.bulletsLength, p.totalSlides)
            flags == [_isEdge |-> isEdge, _isActive |-> shifted = activeIndex]
            opts == IF removeBulletIndex > -1
                    THEN flags @@ [f \in {"_position"} |-> index * p.diameter]
                    ELSE flags
        IN  [removed |-> FALSE, wrote |-> "_position" \in DOMAIN opts,
             bullet |-> _setAttributes(bullet, opts)]

\* One call of the callback of each(): [removed, wrote, bullet]; wrote tells
\* whether _setAttributes was given a _position.
_handleBulletMovement(p, bullet, index, activeIndex, sign, removeBulletIndex) ==
    IF removeBulletIndex = index
    THEN [removed |-> TRUE, wrote |-> FALSE, bullet |-> bullet]
    ELSE
        LET shifted == index - (IF removeBulletIndex > -1 THEN sign ELSE 0)
            realIndex == getRealIndex(shifted, p.currentIndex, activeIndex)
            isEdge == isEdgeBullet(shifted, realIndex, p.bulletsLength, p.totalSlides)
            flags == [_isEdge |-> isEdge, _isActive |-> shifted = activeIndex]
            opts == IF removeBulletIndex > -1
                    THEN flags @@ [f \in {"_position"} |-> shifted * p.diameter]
                    ELSE flags
        IN  [removed |-> FALSE, wrote |-> "_position" \in DOMAIN opts,
             bullet |-> _setAttributes(bullet, opts)]

\* _insertBullet that appends and has no prepend branch.
_insertBullet_appendOnly(children, sign, bullet) ==
    IF sign = 1 THEN append(children, bullet) ELSE children

_insertBullet(children, sign, bullet) ==
    IF sign = 1 THEN append(children, bullet) ELSE prepend(children, bullet)

\* new Pagination(container, totalSlides, {diameter, bullets, isActive});
\* found is container.querySelector('.virchual__pagination').
Pagination_new(found, totalSlides, diameter, bullets, isActive) ==
    LET bulletsLength == Min(totalSlides, Coalesce(bullets, DefaultBullets))
    IN  [ref |-> found,
         totalSlides |-> totalSlides,
         currentIndex |-> 0,
         bulletsLength |-> bulletsLength,
         diameter |-> Coalesce(diameter, DefaultDiameter),
         isActive |-> Coalesce(isActive, TRUE),
         centerIndex |-> bulletsLength \div 2]

\* render that quits early without clearing _isActive.
render_keepsActive(p) ==
    IF ~p.isActive \/ p.totalSlides < 2
    THEN p
    ELSE
        LET indices == range(0, Min(p.bulletsLength, p.totalSlides) - 1)
            bullets == [i \in 1..Len(indices) |->
                          _renderBullet(p, indices[i],
                              [_isEdge |-> isEdgeBullet(indices[i], indices[i],
                                               p.bulletsLength, p.totalSlides),
                               _isActive |-> indices[i] = p.currentIndex])]
        IN  [p EXCEPT !.ref = <<bullets>>]

render(p) ==
    IF ~p.isActive \/ p.totalSlides < 2
    THEN [p EXCEPT !.isActive = FALSE]
    ELSE
        LET indices == range(0, Min(p.bulletsLength, p.totalSlides) - 1)
            bullets == [i \in 1..Len(indices) |->
                          _renderBullet(p, indices[i],
                              [_isEdge |-> isEdgeBullet(indices[i], indices[i],
                                               p.bulletsLength, p.totalSlides),
                               _isActive |-> indices[i] = p.currentIndex])]
        IN  [p EXCEPT !.ref = <<bullets>>]

\* _goTo, first statement: the circular move of _currentIndex, with the
\* edge of rewind one too far.
MoveIndex_edgeOffByOne(p, sign) ==
    rewind(p.currentIndex + sign, p.totalSlides)

\* _goTo, first statement: the circular move of _currentIndex.
MoveIndex(p, sign) ==
    rewind(p.currentIndex + sign, p.totalSlides - 1)

\* The decision of _goTo without the overflow tests.
RemoveBulletIndex_noOverflowTest(p, cur, sign) ==
    LET mappedActiveIndex == mapActiveIndex(cur, p.centerIndex, p.bulletsLength, p.totalSlides)
        removeBullet == mappedActiveIndex = p.centerIndex
    IN  IF removeBullet
        THEN (IF sign = 1 THEN 0 ELSE p.bulletsLength - 1)
        ELSE -1

\* The decision of _goTo after the move of _currentIndex: cur is the new
\* current index.  -1 when no bullet is removed.
RemoveBulletIndex(p, cur, sign) ==
    LET mappedActiveIndex == mapActiveIndex(cur, p.centerIndex, p.bulletsLength, p.totalSlides)
        overflowRight == cur + p.centerIndex + (IF sign > 0 THEN 0 ELSE 1) < p.totalSlides
        overflowLeft == cur - p.centerIndex > 0
        removeBullet == /\ mappedActiveIndex = p.centerIndex
                        /\ (IF sign > 0 THEN overflowLeft ELSE overflowRight)
    IN  IF removeBullet
        THEN (IF sign = 1 THEN 0 ELSE p.bulletsLength - 1)
        ELSE -1

\* _goTo(sign): the Pagination afterwards and what the call did.
\*   "inactive": returned at the _isActive guard;
\*   "threw":    TypeError at this._ref.querySelectorAll, _ref being null;
\*   "moved":    ran to its end.
\* removedSlots are the indices of the bullets removed, kept the bullets that
\* stayed (re-attributed, in order), positionWrites the number of transforms
\* written.
_goTo(p, sign) ==
    IF ~p.isActive
    THEN [pagination |-> p, outcome |-> "inactive", removeBulletIndex |-> -1,
          removedSlots |-> {}, kept |-> <<>>, positionWrites |-> 0]
    ELSE
        LET cur == MoveIndex(p, sign)
            q == [p EXCEPT !.currentIndex = cur]
            mappedActiveIndex == mapActiveIndex(cur, p.centerIndex, p.bulletsLength, p.totalSlides)
            removeBulletIndex == RemoveBulletIndex(p, cur, sign)
        IN  IF Len(p.ref) = 0
            THEN [pagination |-> q, outcome |-> "threw",
                  removeBulletIndex |-> removeBulletIndex,
                  removedSlots |-> {}, kept |-> <<>>, positionWrites |-> 0]
            ELSE
                LET spans == p.ref[1]
                    handled == [i \in 1..Len(spans) |->
                                  _handleBulletMovement(q, spans[i], i - 1,
                                      mappedActiveIndex, sign, removeBulletIndex)]
                    keptH == SelectSeq(handled, LAMBDA h : ~h.removed)
                    kept == [i \in 1..Len(keptH) |-> keptH[i].bullet]
                    insertBulletIndex == -1 + p.bulletsLength - removeBulletIndex
                    realIndex == getRealIndex(insertBulletIndex, cur, mappedActiveIndex)
                    isEdge == isEdgeBullet(insertBulletIndex, realIndex,
                                           p.bulletsLength, p.totalSlides)
                    children == IF removeBulletIndex > -1
                                THEN _insertBullet(kept, sign,
                                        _renderBullet(q, insertBulletIndex,
                                                      [_isEdge |-> isEdge]))
                                ELSE kept
                IN  [pagination |-> [q EXCEPT !.ref = <<children>>],
                     outcome |-> "moved",
                     removeBulletIndex |-> removeBulletIndex,
                     removedSlots |-> { i - 1 : i \in { j \in 1..Len(spans) : handled[j].removed } },
                     kept |-> kept,
                     positionWrites |->
                         Cardinality({ j \in 1..Len(spans) : handled[j].wrote })
                         + (IF removeBulletIndex > -1 THEN 1 ELSE 0)]

(***************************************************************************)
(* Spec: a Pagination used as the widget uses it: constructed, rendered,   *)
(* then moved by next() and prev().  SpecEarly adds next() and prev()      *)
(* called between construction and render().                               *)
(***************************************************************************)
\* What container.querySelector finds at construction: nothing, an empty
\* pagination element, or one holding a bullet.
Found == { <<>>, << <<>> >>, << <<createElement>> >> }

BulletsOptions == { <<>> } \cup { <<b>> : b \in 1..MaxBullets }

DiameterOptions == { <<>>, <<10>> }

IsActiveOptions == { <<>>, <<TRUE>>, <<FALSE>> }

Init ==
    /\ call = NoCall
    /\ ret = NotReturned
    /\ \E found \in Found, totalSlides \in 0..MaxSlides, diameter \in DiameterOptions,
          bullets \in BulletsOptions, isActive \in IsActiveOptions :
            pagination = Pagination_new(found, totalSlides, diameter, bullets, isActive)
    /\ pc = "constructed"
    /\ last = [op |-> "new", outcome |-> "constructed", removeBulletIndex |-> -1,
               removedSlots |-> {}, kept |-> <<>>, positionWrites |-> 0]
    /\ NoWidget

Pagination_render ==
    /\ pc = "constructed"
    /\ pagination' = render(pagination)
    /\ pc' = "rendered"
    /\ last' = [op |-> "render",
                outcome |-> IF render(pagination).isActive THEN "rendered" ELSE "inactive",
                removeBulletIndex |-> -1,
                removedSlots |-> {}, kept |-> <<>>, positionWrites |-> 0]
    /\ UNCHANGED <<call, ret, widgetVars>>

Step(op, sign) ==
    LET r == _goTo(pagination, sign)
    IN  /\ pagination' = r.pagination
        /\ last' = [op |-> op, outcome |-> r.outcome,
                    removeBulletIndex |-> r.removeBulletIndex,
                    removedSlots |-> r.removedSlots, kept |-> r.kept,
                    positionWrites |-> r.positionWrites]
        /\ UNCHANGED <<call, ret, pc, widgetVars>>

Pagination_next ==
    /\ pc = "rendered"
    /\ Step("next", 1)

Pagination_prev ==
    /\ pc = "rendered"
    /\ Step("prev", -1)

Pagination_nextBeforeRender ==
    /\ pc = "constructed"
    /\ Step("next", 1)

Pagination_prevBeforeRender ==
    /\ pc = "constructed"
    /\ Step("prev", -1)

Next ==
    \/ Pagination_render
    \/ Pagination_next
    \/ Pagination_prev

Spec == Init /\ [][Next]_vars

NextEarly ==
    \/ Pagination_render
    \/ Pagination_next
    \/ Pagination_prev
    \/ Pagination_nextBeforeRender
    \/ Pagination_prevBeforeRender

SpecEarly == Init /\ [][NextEarly]_vars

(***************************************************************************)
(* virchual.ts: the Virchual widget.                                       *)
(*                                                                         *)
(* A slide is [isMounted, isActive, position]: what Slide.mount / unmount  *)
(* and Slide.set('isActive' | 'position', ...) leave.  Slide.translate(x,  *)
(* done) starts a transition and calls done when it has ended: pending     *)
(* counts the callbacks not yet called.  The place of a mounted slide      *)
(* among the children of the frame (prepend) and the offset of a dragged   *)
(* slide are not part of the state.                                        *)
(***************************************************************************)
DefaultWindow == 1

\* Array.prototype.indexOf: the first index holding x, or -1.
indexOf(array, x) ==
    IF \E i \in 1..Len(array) : array[i] = x
    THEN (CHOOSE i \in 1..Len(array) :
             array[i] = x /\ \A j \in 1..(i - 1) : array[j] # x) - 1
    ELSE -1

\* this.slides[index] is undefined.
NoSlideAt(slides, index) == index < 0 \/ index >= Len(slides)

\* slide.ts: a Slide made from an element found in the frame (hydrate) is on
\* the page already; one made from a string is not.
Slide_new(hydrated) == [isMounted |-> hydrated, isActive |-> FALSE, position |-> 0]

RECURSIVE MountLoop(_, _, _, _, _, _)
\* The forEach of mountAndUnmountSlides from entry k (from 1) of
\* mountableSlideIndicesWithOffset on: [slides, threw].  It ends with a
\* TypeError when the entry names no slide.
MountLoop(slides, cur, window, mountable, withOffset, k) ==
    IF k > Len(withOffset)
    THEN [slides |-> slides, threw |-> FALSE]
    ELSE
        LET index == withOffset[k]
            marked == [slides EXCEPT ![cur + 1].isActive = (index = cur)]
            realIndex == indexOf(mountable, index)
        IN  IF NoSlideAt(slides, index)
            THEN [slides |-> marked, threw |-> TRUE]
            ELSE IF realIndex < 0
            THEN MountLoop([marked EXCEPT ![index + 1].isMounted = FALSE],
                           cur, window, mountable, withOffset, k + 1)
            ELSE MountLoop([marked EXCEPT ![index + 1].position = (window - realIndex) * (-100),
                                          ![index + 1].isMounted = TRUE],
                           cur, window, mountable, withOffset, k + 1)

\* mountAndUnmountSlides() of widget v: [virchual, threw].
mountAndUnmountSlides(v) ==
    LET indices == range(0, Len(v.slides) - 1)
        mountableSlideIndices == slidingWindow(indices, v.currentIndex, v.window)
        mountableSlideIndicesWithOffset ==
            slidingWindow(indices, v.currentIndex, v.window + 1)
        r == MountLoop(v.slides, v.currentIndex, v.window, mountableSlideIndices,
                       mountableSlideIndicesWithOffset, 1)
    IN  [virchual |-> [v EXCEPT !.slides = r.slides], threw |-> r.threw]

\* new Virchual(selector, options): hydrated slides of the frame followed by
\* the slides of options.slides; the Pagination is made and rendered.
Virchual_new(hydrated, raw, window) ==
    [currentIndex |-> 0,
     isBusy |-> FALSE,
     window |-> Coalesce(window, DefaultWindow),
     slides |-> [i \in 1..(hydrated + raw) |-> Slide_new(i <= hydrated)]]

\* go(direction) of widget v with Pagination p: the widget and the
\* Pagination afterwards; threw when mountAndUnmountSlides ended with a
\* TypeError, which leaves the Pagination where it was.
go(v, p, direction) ==
    LET sign == IF direction = "prev" THEN -1 ELSE 1
        moved == [v EXCEPT !.currentIndex =
                     rewind(v.currentIndex + sign * 1, Len(v.slides) - 1)]
        m == mountAndUnmountSlides(moved)
    IN  [virchual |-> m.virchual,
         threw |-> m.threw,
         pagination |-> IF m.threw THEN p ELSE _goTo(p, sign).pagination]

(***************************************************************************)
(* SpecWidget: the widget after construction; mount(), next(), prev(),     *)
(* clicks on the control buttons, drag gestures and the ends of the        *)
(* transitions in every order.                                             *)
(***************************************************************************)
WindowOptions == { <<>> } \cup { <<w>> : w \in 0..MaxWindow }

Log(op, threw) ==
    [op |-> op, outcome |-> IF threw THEN "threw" ELSE "done",
     removeBulletIndex |-> -1, removedSlots |-> {}, kept |-> <<>>,
     positionWrites |-> 0]

InitWidget ==
    /\ call = NoCall
    /\ ret = NotReturned
    /\ \E n \in 1..MaxWidgetSlides, hydrated \in 0..MaxHydrated,
          window \in WindowOptions, found \in Found :
            /\ hydrated <= n
            /\ virchual = Virchual_new(hydrated, n - hydrated, window)
            /\ pagination = render(Pagination_new(found, n, <<>>, <<>>, <<>>))
    /\ pc = "rendered"
    /\ wpc = "constructed"
    /\ pending = 0
    /\ dragging = FALSE
    /\ last = Log("new", FALSE)

Virchual_mount ==
    /\ wpc = "constructed"
    /\ LET m == mountAndUnmountSlides(virchual)
       IN  /\ virchual' = m.virchual
           /\ last' = Log("mount", m.threw)
    /\ wpc' = "mounted"
    /\ UNCHANGED <<call, ret, pagination, pc, pending, dragging>>

\* A call of go(direction): its callback joins the pending ones.
Go(op, direction) ==
    /\ pending < MaxPending
    /\ LET g == go(virchual, pagination, direction)
       IN  /\ virchual' = g.virchual
           /\ pagination' = g.pagination
           /\ last' = Log(op, g.threw)
    /\ pending' = pending + 1
    /\ UNCHANGED <<call, ret, pc, wpc>>

Virchual_next ==
    /\ Go("next", "next")
    /\ UNCHANGED dragging

Virchual_prev ==
    /\ Go("prev", "prev")
    /\ UNCHANGED dragging

Virchual_onPaginationButtonClick ==
    /\ \E direction \in {"prev", "next"} : Go("click", direction)
    /\ UNCHANGED dragging

\* onDrag: isBusy is set, then every slide of the window is moved; the
\* handler ends with a TypeError when the window names no slide.
Virchual_onDrag ==
    /\ virchual' = [virchual EXCEPT !.isBusy = TRUE]
    /\ dragging' = TRUE
    /\ LET mountableSlideIndices ==
               slidingWindow(range(0, Len(virchual.slides) - 1),
                             virchual.currentIndex, virchual.window)
       IN  last' = Log("drag", \E k \in 1..Len(mountableSlideIndices) :
                                  NoSlideAt(virchual.slides, mountableSlideIndices[k]))
    /\ UNCHANGED <<call, ret, pagination, pc, wpc, pending>>

Virchual_onDragEnd ==
    /\ dragging
    /\ \E direction \in {"prev", "next"} : Go("dragend", direction)
    /\ dragging' = FALSE

\* The transition started by a go() has ended: its callback runs.
TransitionEnd ==
    /\ pending > 0
    /\ virchual' = [virchual EXCEPT !.isBusy = FALSE]
    /\ pending' = pending - 1
    /\ last' = Log("transitionend", FALSE)
    /\ UNCHANGED <<call, ret, pagination, pc, wpc, dragging>>

NextWidget ==
    \/ Virchual_mount
    \/ Virchual_next
    \/ Virchual_prev
    \/ Virchual_onPaginationButtonClick
    \/ Virchual_onDrag
    \/ Virchual_onDragEnd
    \/ TransitionEnd

SpecWidget == InitWidget /\ [][NextWidget]_vars

(***************************************************************************)
(* Properties of the pure functions (checked under SpecFn).                *)
(***************************************************************************)
SlidingWindowReturned ==
    call.fn = "slidingWindow" /\ ret.done /\ Len(call.source) >= 1

\* The element of source at logical position start - size + k, wrapped into
\* range (k = 0 .. 2*size).
WrappedItem(source, start, size, k) ==
    source[((start - size + k) % Len(source)) + 1]

\* C1: for a non-empty source of length N, a valid start and a radius
\* 0 <= r < N, the window holds at each position k in 0..2r the element
\* source[(start - r + k) mod N].
C1_WindowIsWrappedNeighbourhood ==
    (SlidingWindowReturned /\ call.size < Len(call.source)) =>
        /\ Len(ret.value) = 2 * call.size + 1
        /\ \A k \in 0..(2 * call.size) :
              ret.value[k + 1] = WrappedItem(call.source, call.start, call.size, k)

\* The last test of sliding-window.spec.ts: the window wraps over the right
\* edge with radius 2.
C1_Witness ==
    /\ SlidingWindowReturned
    /\ call.source = <<1, 2, 3, 4, 5>> /\ call.start = 4 /\ call.size = 2
    /\ ret.value = <<3, 4, 5, 1, 2>>

\* C2: for a non-empty source and every radius r >= 0 (r >= N included) the
\* window has length exactly 2*r + 1.
C2_WindowLength ==
    SlidingWindowReturned => Len(ret.value) = 2 * call.size + 1

C2_Witness ==
    /\ SlidingWindowReturned
    /\ call.size > Len(call.source)
    /\ Len(ret.value) = 2 * call.size + 1

\* C3: for a non-empty source and every radius r >= 0 (r >= N and r > N
\* included) every entry of the window is an element of the source obtained
\* by wrapping; no entry is an undefined read.
C3_EveryEntryIsWrappedElement ==
    SlidingWindowReturned =>
        \A k \in 0..(2 * call.size) :
            /\ ret.value[k + 1] # undefined
            /\ ret.value[k + 1] = WrappedItem(call.source, call.start, call.size, k)

MapActiveIndexReturned ==
    /\ call.fn = "mapActiveIndex" /\ ret.done
    /\ call.center = call.bullets \div 2

\* C4: for total >= 1, bullets >= 1 (odd or even), center = floor(bullets/2)
\* and index in 0..total-1, mapActiveIndex is in 0..bullets-1.
C4_MappedIndexIsASlot ==
    MapActiveIndexReturned => ret.value \in 0..(call.bullets - 1)

\* The reference of C12, clause by clause.  The second and third clause
\* both cover index = total - 1 - center and agree there only for an odd
\* bullet count; the index is read with the second clause, so that the
\* reference is one function for every bullet count.
MatchesReference(value, i, c, b, t) ==
    IF b >= t THEN value = i
    ELSE /\ (i <= c => value = i)
         /\ (c <= i /\ i <= t - 1 - c => value = c)
         /\ (i > t - 1 - c => value = b - 1 - (t - 1 - i))

\* C12: for total T >= 1, bullets B >= 1, center C = floor(B/2) and index i
\* in 0..T-1, mapActiveIndex(i, C, B, T) is i when B >= T; otherwise i when
\* i <= C, C when C <= i <= T-1-C, and B-1-(T-1-i) when i >= T-1-C.
C12_MapActiveIndexIsReference ==
    MapActiveIndexReturned =>
        MatchesReference(ret.value, call.index, call.center, call.bullets, call.total)

IsEdgeBulletReturned == call.fn = "isEdgeBullet" /\ ret.done

\* C5 as stated: slot 0 is an edge iff realIndex # 0, slot n-1 is an edge iff
\* realIndex + 1 < total (also when n = 1 makes them the same slot), every
\* other slot is no edge.
C5_EdgeBulletAsStated ==
    IsEdgeBulletReturned =>
        /\ (call.index = 0 => (ret.value <=> call.realIndex # 0))
        /\ (call.index = call.bullets - 1 =>
                (ret.value <=> call.realIndex + 1 < call.total))
        /\ (call.index # 0 /\ call.index # call.bullets - 1 => ~ret.value)

\* C5 amended: slot 0 is an edge iff realIndex # 0 (for every n >= 1); slot
\* n-1 is an edge iff realIndex + 1 < total when n >= 2; every other slot
\* is no edge.
C5_EdgeBullet ==
    IsEdgeBulletReturned =>
        /\ (call.index = 0 => (ret.value <=> call.realIndex # 0))
        /\ (call.index = call.bullets - 1 /\ call.bullets >= 2 =>
                (ret.value <=> call.realIndex + 1 < call.total))
        /\ (call.index # 0 /\ call.index # call.bullets - 1 => ~ret.value)

\* The right edge slot of a strip of several bullets with content to its
\* right.
C5_Witness ==
    /\ IsEdgeBulletReturned
    /\ call.bullets >= 2 /\ call.index = call.bullets - 1
    /\ call.realIndex + 1 < call.total
    /\ ret.value

(***************************************************************************)
(* Properties of the Pagination (checked under Spec; C10 under SpecEarly). *)
(***************************************************************************)
\* An active Pagination after render(): its strip exists.
Active == pc = "rendered" /\ pagination.isActive

Stepped == last.op \in {"next", "prev"}

\* The bullets of the strip of p, in strip order.
StripOf(p) == p.ref[1]

ActiveSlotOf(p) ==
    mapActiveIndex(p.currentIndex, p.centerIndex, p.bulletsLength, p.totalSlides)

\* The real indices the bullets of the strip of p represent.
RealIndicesOf(p) ==
    { getRealIndex(k, p.currentIndex, ActiveSlotOf(p)) : k \in 0..(Len(StripOf(p)) - 1) }

Contiguous(S) ==
    \A x \in S, y \in S : \A z \in x..y : z \in S

\* C6: in an active Pagination, after render() and any next()/prev(), the
\* real indices of the strip are a contiguous run of min(bulletCount,
\* totalItems) indices inside 0..totalItems-1 that contains currentIndex,
\* for every configured bullet count, odd or even.
C6_StripIsWindowAroundCurrent ==
    Active =>
        /\ Contiguous(RealIndicesOf(pagination))
        /\ Cardinality(RealIndicesOf(pagination)) = pagination.bulletsLength
        /\ RealIndicesOf(pagination) \subseteq 0..(pagination.totalSlides - 1)
        /\ pagination.currentIndex \in RealIndicesOf(pagination)

ActiveBulletsOf(p) == { k \in 1..Len(StripOf(p)) : StripOf(p)[k].isActive }

\* C7: in an active Pagination, after render() and any next()/prev(), at
\* most one bullet of the strip is active.
C7_AtMostOneActiveBullet ==
    Active => Cardinality(ActiveBulletsOf(pagination)) <= 1

\* An evicting step has just kept, shifted and inserted bullets.
C7_Witness ==
    /\ Active /\ Stepped
    /\ last.removeBulletIndex > -1
    /\ Len(StripOf(pagination)) >= 3
    /\ Cardinality(ActiveBulletsOf(pagination)) = 1

AfterNextPrev(p) == _goTo(_goTo(p, 1).pagination, -1).pagination

\* C8: from every reachable state of an active Pagination, next() followed
\* by prev() restores currentIndex and the strip's set of real indices.
C8_NextThenPrevRestores ==
    Active =>
        /\ AfterNextPrev(pagination).currentIndex = pagination.currentIndex
        /\ RealIndicesOf(AfterNextPrev(pagination)) = RealIndicesOf(pagination)

\* A state reached by steps from which next() evicts a bullet and the
\* following prev() evicts one too.
C8_Witness ==
    /\ Active /\ Stepped
    /\ _goTo(pagination, 1).removeBulletIndex > -1
    /\ _goTo(_goTo(pagination, 1).pagination, -1).removeBulletIndex > -1
    /\ AfterNextPrev(pagination).currentIndex = pagination.currentIndex

\* A state from which next() wraps from totalItems-1 to 0.
C8_WitnessWrap ==
    /\ Active /\ Stepped
    /\ pagination.currentIndex = pagination.totalSlides - 1
    /\ _goTo(pagination, 1).pagination.currentIndex = 0
    /\ AfterNextPrev(pagination).currentIndex = pagination.currentIndex

RECURSIVE NextTimes(_, _)
\* p after n calls of next().
NextTimes(p, n) ==
    IF n = 0 THEN p ELSE _goTo(NextTimes(p, n - 1), 1).pagination

\* C9: from every reachable state of an active Pagination, totalItems calls
\* of next() return currentIndex to its value, and currentIndex is in
\* 0..totalItems-1 after every one of them.
C9_NextTotalTimesIsIdentity ==
    Active =>
        /\ NextTimes(pagination, pagination.totalSlides).currentIndex
              = pagination.currentIndex
        /\ \A n \in 0..pagination.totalSlides :
              NextTimes(pagination, n).currentIndex \in 0..(pagination.totalSlides - 1)

\* A state in the middle of the range, reached by a step: the run of
\* totalItems calls passes the wrap from totalItems-1 to 0.
C9_Witness ==
    /\ Active /\ Stepped
    /\ pagination.totalSlides >= 3
    /\ pagination.currentIndex = 1
    /\ NextTimes(pagination, pagination.totalSlides - 1).currentIndex = 0
    /\ NextTimes(pagination, pagination.totalSlides).currentIndex = 1

\* C10 as stated: with totalItems < 2 every next()/prev(), after render()
\* or directly after construction, returns at the isActive guard.
C10_NoOpFromConstructionOn ==
    (pagination.totalSlides < 2 /\ Stepped) =>
        /\ ~pagination.isActive
        /\ last.outcome = "inactive"

\* C10 amended: with totalItems < 2, render() renders no bullet and leaves
\* the Pagination inactive, and every next()/prev() after render() returns
\* at the isActive guard and changes nothing.
C10_NoOpAfterRender ==
    [][ pagination.totalSlides < 2 =>
          /\ (pc' = "rendered" =>
                /\ ~pagination'.isActive
                /\ pagination'.ref = pagination.ref
                /\ last'.outcome = "inactive")
          /\ (pc = "rendered" => pagination' = pagination) ]_vars

C10_Witness ==
    /\ pagination.totalSlides < 2
    /\ pc = "rendered"
    /\ last.op = "next" /\ last.outcome = "inactive"
    /\ ~pagination.isActive

\* The first real index the strip of p shows.
FirstRealIndexOf(p) == p.currentIndex - ActiveSlotOf(p)

\* A step of an active Pagination: next() or prev() after render().
ActiveStep == Active /\ pagination'.currentIndex # pagination.currentIndex

SignOfStep == IF last'.op = "next" THEN 1 ELSE -1

Evicts == last'.removedSlots # {}

\* C13: a step of an active Pagination evicts a bullet iff the first real
\* index of the strip after the step is its value before plus sign; every
\* other step neither evicts nor inserts; an evicting step removes slot 0
\* (sign +1) or slot bulletCount-1 (sign -1) and inserts exactly one new
\* bullet at the other end.
C13_EvictionIffWindowMoves ==
    [][ ActiveStep =>
          LET before == StripOf(pagination)
              after == StripOf(pagination')
              kept == last'.kept
          IN  /\ Evicts <=> (FirstRealIndexOf(pagination')
                                = FirstRealIndexOf(pagination) + SignOfStep)
              /\ ~Evicts => (Len(kept) = Len(before) /\ after = kept)
              /\ Evicts =>
                    /\ last'.removedSlots =
                          { IF SignOfStep = 1 THEN 0 ELSE pagination.bulletsLength - 1 }
                    /\ Len(kept) = Len(before) - 1
                    /\ Len(after) = Len(kept) + 1
                    /\ (SignOfStep = 1 => SubSeq(after, 1, Len(kept)) = kept)
                    /\ (SignOfStep = -1 => SubSeq(after, 2, Len(after)) = kept) ]_vars

\* An evicting prev() has just removed the last slot and prepended a bullet.
C13_Witness ==
    /\ Active /\ last.op = "prev"
    /\ last.removedSlots = { pagination.bulletsLength - 1 }
    /\ pagination.bulletsLength >= 2
    /\ Len(StripOf(pagination)) = Len(last.kept) + 1
    /\ SubSeq(StripOf(pagination), 2, Len(StripOf(pagination))) = last.kept

PositionsInPlace(p) ==
    \A k \in 0..(Len(StripOf(p)) - 1) : StripOf(p)[k + 1].position = k * p.diameter

\* C14: in an active Pagination, after render() and any next()/prev(), the
\* bullet at place k has position k * diameter; a step that evicts nothing
\* writes no position and leaves order and positions unchanged; an evicting
\* step repositions every kept bullet to shiftedIndex * diameter.
C14_PositionsFollowPlaces ==
    [][ /\ (pc' = "rendered" /\ pagination'.isActive) => PositionsInPlace(pagination')
        /\ ActiveStep =>
              LET before == StripOf(pagination)
                  after == StripOf(pagination')
                  kept == last'.kept
                  shift == IF SignOfStep = 1 THEN 0 ELSE 1
              IN  /\ ~Evicts =>
                        /\ last'.positionWrites = 0
                        /\ Len(after) = Len(before)
                        /\ \A k \in 1..Len(before) : after[k].position = before[k].position
                  /\ Evicts =>
                        /\ last'.positionWrites = Len(kept) + 1
                        /\ \A k \in 1..Len(kept) :
                              kept[k].position = (k - 1 + shift) * pagination.diameter ]_vars

\* An evicting next() has just shifted four kept bullets one place left.
C14_Witness ==
    /\ Active /\ last.op = "next"
    /\ last.removedSlots = {0}
    /\ Len(last.kept) = 4 /\ last.positionWrites = 5
    /\ PositionsInPlace(pagination)

\* C16: in an active Pagination with any bullet count >= 1, after render()
\* and any next()/prev(), exactly one bullet is active, the one at place
\* mapActiveIndex(currentIndex), and the edge flag of the bullet at every
\* place k is isEdgeBullet(k, getRealIndex(k, currentIndex,
\* mapActiveIndex(currentIndex)), bulletCount, totalItems).
C16_ActiveAndEdgeFlags ==
    Active =>
        /\ ActiveBulletsOf(pagination) = { ActiveSlotOf(pagination) + 1 }
        /\ \A k \in 0..(Len(StripOf(pagination)) - 1) :
              StripOf(pagination)[k + 1].isEdge =
                  isEdgeBullet(k,
                      getRealIndex(k, pagination.currentIndex, ActiveSlotOf(pagination)),
                      pagination.bulletsLength, pagination.totalSlides)

(***************************************************************************)
(* Properties of the widget (checked under SpecWidget).                    *)
(***************************************************************************)
\* The last operation ran mountAndUnmountSlides.
RanMount == last.op \in {"mount", "next", "prev", "click", "dragend"}

\* The last operation ran mountAndUnmountSlides to its end.
CompletedMount == RanMount /\ last.outcome = "done"

SlideCount == Len(virchual.slides)

CurrentSlide == virchual.slides[virchual.currentIndex + 1]

\* C11: no transition (go) starts while the completion callback of a
\* previous transition is still pending: at most one callback is pending at
\* any time.
C11_NoOverlappingTransitions == pending <= 1

\* The slides that are mounted.
MountedOf(v) == { i \in 0..(Len(v.slides) - 1) : v.slides[i + 1].isMounted }

\* The entries of slidingWindow([0..N-1], currentIndex, w).
WindowOf(v) ==
    LET win == slidingWindow(range(0, Len(v.slides) - 1), v.currentIndex, v.window)
    IN  { win[k] : k \in 1..Len(win) }

\* C15: after mount() and any next()/prev() calls the mounted slides are
\* exactly the slides of the radius-w window around currentIndex, and no
\* step read a slide at an undefined index.
C15_MountedIsWindow ==
    wpc = "mounted" =>
        /\ last.outcome # "threw"
        /\ MountedOf(virchual) = WindowOf(virchual)

\* C17: the widget's currentIndex is an index of a slide and equals the
\* currentIndex of its Pagination.
C17_CountersAgree ==
    /\ virchual.currentIndex \in 0..(SlideCount - 1)
    /\ virchual.currentIndex = pagination.currentIndex

\* C18: while a drag gesture is in progress isBusy is true.
C18_BusyWhileDragging == dragging => virchual.isBusy

\* C19: after every completed run of mountAndUnmountSlides the slide at
\* currentIndex is active.
C19_CurrentSlideIsActive == CompletedMount => CurrentSlide.isActive

\* C20: after every completed run of mountAndUnmountSlides the slide at
\* currentIndex has position 0, and every slide of the radius-w window has
\* position 100 * d for a place d after (d < 0: before) the center at which
\* it sits.
C20_PositionsAroundCurrent ==
    CompletedMount =>
        LET win == slidingWindow(range(0, SlideCount - 1), virchual.currentIndex,
                                 virchual.window)
        IN  /\ CurrentSlide.position = 0
            /\ \A i \in WindowOf(virchual) :
                   \E k \in 1..Len(win) :
                       /\ win[k] = i
                       /\ virchual.slides[i + 1].position = 100 * (k - 1 - virchual.window)

====
